---- MODULE Spec2Model ----
(***************************************************************************)
(* Firmware-based retraction (src/fwretract.cpp): FWRetract::reset() and   *)
(* FWRetract::retract(retracting, swapping), with the collaborators the    *)
(* code calls (position tracker, planner, stepper) at their interface.     *)
(*                                                                         *)
(* Units: lengths and positions are hundredths of a millimetre (the hop    *)
(* threshold 0.01 mm is 1), feedrates are mm/s, planner.e_factor is in     *)
(* hundredths (a flow factor of 1.0 is 100).  The code's float arithmetic  *)
(* is modelled exactly; the value sets are chosen so that every quotient   *)
(* length / e_factor is an integer.                                        *)
(***************************************************************************)
EXTENDS Integers, Sequences, FiniteSets

VARIABLES
  EXTRUDERS,                          \* compile-time number of extruders
  autoretract_enabled,                \* M209 S
  retract_length,                     \* M207 S
  retract_feedrate_mm_s,              \* M207 F
  retract_zlift,                      \* M207 Z
  retract_recover_length,             \* M208 S
  retract_recover_feedrate_mm_s,      \* M208 F
  swap_retract_length,                \* M207 W
  swap_retract_recover_length,        \* M208 W
  swap_retract_recover_feedrate_mm_s, \* M208 R
  retracted,                          \* [extruder -> BOOLEAN]
  retracted_swap,                     \* [extruder -> BOOLEAN]
  hop_amount,                         \* static local of retract()
  active_extruder,
  feedrate_mm_s,
  current_position,                   \* [axis -> Int], the logical position
  destination,                        \* [axis -> Int]
  planner_position,                   \* [axis -> Int], the planner's position
  e_factor,                           \* planner.e_factor, [extruder -> Int]
  blocks_queued,                      \* planner blocks the stepper has not run yet
  pc,                                 \* "idle", or "sync": inside retract(), in stepper.synchronize()
  retracting,                         \* retract()'s locals, live while pc = "sync"
  swapping,
  has_zhop,
  old_feedrate_mm_s,
  last,                               \* history: the latest command
  pre,                                \* history: the program state when it started
  queued,                             \* history: the moves it handed to the planner
  trace,                              \* history: the collaborator calls it made
  prev,                               \* history: summary of the command before it
  transition,                         \* history: [extruder -> last accepted transition]
  pulled                              \* history: [extruder -> E displacement of the retract it is in]

config ==
  << autoretract_enabled, retract_length, retract_feedrate_mm_s, retract_zlift,
     retract_recover_length, retract_recover_feedrate_mm_s, swap_retract_length,
     swap_retract_recover_length, swap_retract_recover_feedrate_mm_s >>

locals == << retracting, swapping, has_zhop, old_feedrate_mm_s >>

motion == << feedrate_mm_s, current_position, destination, planner_position >>

history == << last, pre, queued, trace, prev, transition, pulled >>

vars ==
  << EXTRUDERS, config, retracted, retracted_swap, hop_amount, active_extruder,
     motion, e_factor, blocks_queued, pc, locals, history >>

----------------------------------------------------------------------------
(* Compile-time configuration.  EXTRUDERS and the RETRACT_* defaults are    *)
(* macros of the configuration headers, used at lines 40-42 and 59-66; the *)
(* values below are one configuration (3 mm at 45 mm/s with a 0.4 mm hop,  *)
(* swap and plain recover parameters distinct).                            *)

NumExtruders == 2

RETRACT_LENGTH == 300
RETRACT_FEEDRATE == 45
RETRACT_ZLIFT == 40
RETRACT_RECOVER_LENGTH == 60
RETRACT_RECOVER_FEEDRATE == 8
RETRACT_LENGTH_SWAP == 1200
RETRACT_RECOVER_LENGTH_SWAP == 0
RETRACT_RECOVER_FEEDRATE_SWAP == 12

\* planner.max_feedrate_mm_s[Z_AXIS]
max_feedrate_mm_s_Z == 5

\* has_zhop = retract_zlift > 0.01
ZHOP_MIN == 1

----------------------------------------------------------------------------
(* Bounds and input sets *)

\* planner.e_factor[e] ranges over 1.0, 2.0, ..., MaxFlow
MaxFlow == 2

FlowFactors == { 100 * k : k \in 1..MaxFlow }

\* feedrate_mm_s of the caller at entry to retract(): 25 mm/s or 50 mm/s
Feedrates == { 25, 50 }

\* retract_zlift in the stored settings: 0, exactly 0.01 mm, 0.2 mm and 0.4 mm
ZLifts == { 0, 1, 20, 40 }

\* M207 S F Z W
M207Args ==
  { [S |-> 300, F |-> 45, Z |-> 40, W |-> 1200],
    [S |-> 120, F |-> 30, Z |-> 20, W |-> 600],
    [S |-> 120, F |-> 45, Z |-> 0,  W |-> 1200] }

\* M208 S F W R
M208Args == { [S |-> 60, F |-> 8, W |-> 0, R |-> 12], [S |-> 0, F |-> 45, W |-> 120, R |-> 20] }

X_AXIS == "X"
Y_AXIS == "Y"
Z_AXIS == "Z"
E_AXIS == "E"
Axes == { X_AXIS, Y_AXIS, Z_AXIS, E_AXIS }

Extruders == 0 .. (EXTRUDERS - 1)

----------------------------------------------------------------------------
(* Program state as one value, for the history variable pre, with the     *)
(* transition and filament displacement each extruder's state came from   *)

Snapshot ==
  [ config           |-> config,
    retracted        |-> retracted,
    retracted_swap   |-> retracted_swap,
    hop_amount       |-> hop_amount,
    active_extruder  |-> active_extruder,
    feedrate_mm_s    |-> feedrate_mm_s,
    current_position |-> current_position,
    destination      |-> destination,
    planner_position |-> planner_position,
    transition       |-> transition,
    pulled           |-> pulled ]

\* pre after a command that is neither retract() nor reset()
NoSnapshot == [ none |-> TRUE ]

\* The Z displacements / E displacements among a sequence of queued moves
RECURSIVE AxisMoves(_, _)
AxisMoves(moves, axis) ==
  IF moves = <<>> THEN <<>>
  ELSE LET rest == AxisMoves(Tail(moves), axis)
       IN IF Head(moves).d[axis] # 0 THEN <<Head(moves)>> \o rest ELSE rest

RECURSIVE Deltas(_, _)
Deltas(moves, axis) ==
  IF moves = <<>> THEN <<>> ELSE <<Head(moves).d[axis]>> \o Deltas(Tail(moves), axis)

RECURSIVE Sum(_)
Sum(s) == IF s = <<>> THEN 0 ELSE Head(s) + Sum(Tail(s))

\* What the next command remembers of the one before it: its name and, of
\* a retract() call that ran to its end, the arguments, the extruder, the Z
\* displacements it queued and hop_amount at its entry
NoSummary ==
  [ cmd |-> "none", retracting |-> FALSE, extruder |-> 0, outcome |-> "done",
    zmoves |-> <<>>, pre_hop |-> 0 ]

Summary ==
  IF last.cmd = "retract" /\ last.outcome = "done"
    THEN [ cmd        |-> last.cmd,
           retracting |-> last.retracting,
           extruder   |-> last.extruder,
           outcome    |-> last.outcome,
           zmoves     |-> Deltas(AxisMoves(queued, Z_AXIS), Z_AXIS),
           pre_hop    |-> pre.hop_amount ]
    ELSE [ NoSummary EXCEPT !.cmd = last.cmd ]

Command(cmd, r, s, outcome) ==
  [ cmd |-> cmd, retracting |-> r, swapping |-> s,
    extruder |-> active_extruder, outcome |-> outcome ]

----------------------------------------------------------------------------
(* Collaborators, on the working record                                    *)
(*   m = [cur, dest, plan, fr, hop, moves, ev]                             *)
(* cur/dest/plan are current_position, destination and the planner's       *)
(* position, fr is feedrate_mm_s, hop is hop_amount, moves the moves       *)
(* handed to the planner and ev the calls made so far.                     *)

\* planner position of E := current_position[E_AXIS]; no motion
sync_plan_position_e(m) ==
  [ m EXCEPT !.plan = [ @ EXCEPT ![E_AXIS] = m.cur[E_AXIS] ],
             !.ev   = Append(@, "sync_plan_position_e") ]

\* planner position := current_position on every axis; no motion
SYNC_PLAN_POSITION_KINEMATIC(m) ==
  [ m EXCEPT !.plan = m.cur,
             !.ev   = Append(@, "sync_plan_position_kinematic") ]

\* queue a line from the planner's position to destination at feedrate_mm_s,
\* then current_position := destination
prepare_move_to_destination(m) ==
  [ m EXCEPT !.moves = Append(@, [ d  |-> [ a \in Axes |-> m.dest[a] - m.plan[a] ],
                                  fr |-> m.fr ]),
             !.plan  = m.dest,
             !.cur   = m.dest,
             !.ev    = Append(@, "prepare_move_to_destination") ]

\* length * renormalize, renormalize = 1.0 / planner.e_factor[active_extruder]
\* (f in hundredths)
renormalize(length, f) == (length * 100) \div f

----------------------------------------------------------------------------
(* FWRetract::retract *)

\* Variant: the doubled-call test reads the first extruder's flag
SuppressDoubled_FirstExtruder(r, e) == retracted[0] = r

\* line 99: prevent two retracts or recovers in a row
SuppressDoubled(r, e) == retracted[e] = r

\* Variant: no second suppression rule
SuppressSwap_Missing(r, s, e) == FALSE

\* line 104: prevent two swap-retract or recovers in a row
SuppressSwap(r, s, e) == EXTRUDERS > 1 /\ s /\ retracted_swap[e] = r

\* Variant: the swapping argument is honoured whatever EXTRUDERS is
EffectiveSwapping_AnyBuild(r, s, e) == IF ~r THEN retracted_swap[e] ELSE s

\* Variant: no recover priority, the caller's argument decides
EffectiveSwapping_ArgOnly(r, s, e) == IF EXTRUDERS > 1 THEN s ELSE FALSE

\* lines 106, 108: G11 priority to recover the long retract if activated
EffectiveSwapping(r, s, e) ==
  IF EXTRUDERS > 1 THEN (IF ~r THEN retracted_swap[e] ELSE s) ELSE FALSE

\* Variant: a lift of exactly 0.01 mm counts as a hop
HasZhop_Inclusive(zlift) == zlift >= ZHOP_MIN

\* line 125
HasZhop(zlift) == zlift > ZHOP_MIN

\* Variant: hop on every retract, pending or not
HopDue_Always(zhop, hop) == zhop

\* line 144: is a Z hop set, and has the hop not yet been done?
HopDue(zhop, hop) == zhop /\ hop = 0

\* line 154: was a hop done?
UnhopDue(hop) == hop # 0

\* line 137
RetractDistance(swap) == IF swap THEN swap_retract_length ELSE retract_length

\* Variant: every recover pushes the plain distance
RecoverDistance_PlainOnly(swap) == retract_length + retract_recover_length

\* Variant: the recover pushes only the extra recover length
RecoverDistance_ExtraOnly(swap) ==
  IF swap THEN swap_retract_recover_length ELSE retract_recover_length

\* line 165
RecoverDistance(swap) ==
  IF swap THEN swap_retract_length + swap_retract_recover_length
          ELSE retract_length + retract_recover_length

\* Variant: the swap recover runs at the plain recover feedrate
RecoverFeedrate_Plain(swap) == retract_recover_feedrate_mm_s

\* line 163
RecoverFeedrate(swap) ==
  IF swap THEN swap_retract_recover_feedrate_mm_s ELSE retract_recover_feedrate_mm_s

\* Variant: the flow factor of the first extruder
FlowFactor_First == e_factor[0]

\* line 132
FlowFactor == e_factor[active_extruder]

\* Variant: the hop is queued at the feedrate of the filament move
ZHop_KeepFeedrate(m) ==
  LET m1 == [ m EXCEPT !.hop = @ + retract_zlift,
                       !.cur = [ @ EXCEPT ![Z_AXIS] = @ - retract_zlift ] ]
  IN prepare_move_to_destination(SYNC_PLAN_POSITION_KINEMATIC(m1))

\* Variant: the hop redefines the position and queues no move back
ZHop_NoMove(m) ==
  LET m1 == [ m EXCEPT !.hop = @ + retract_zlift,
                       !.fr  = max_feedrate_mm_s_Z,
                       !.cur = [ @ EXCEPT ![Z_AXIS] = @ - retract_zlift ] ]
  IN SYNC_PLAN_POSITION_KINEMATIC(m1)

\* lines 145-149
ZHop(m) ==
  LET m1 == [ m EXCEPT !.hop = @ + retract_zlift,
                       !.fr  = max_feedrate_mm_s_Z,
                       !.cur = [ @ EXCEPT ![Z_AXIS] = @ - retract_zlift ] ]
  IN prepare_move_to_destination(SYNC_PLAN_POSITION_KINEMATIC(m1))

\* Variant: the un-hop leaves hop_amount as it was
ZUnhop_NoClear(m) ==
  LET m1 == [ m EXCEPT !.cur = [ @ EXCEPT ![Z_AXIS] = @ + retract_zlift ] ]
      m2 == [ SYNC_PLAN_POSITION_KINEMATIC(m1) EXCEPT !.fr = max_feedrate_mm_s_Z ]
  IN prepare_move_to_destination(m2)

\* lines 155-159
ZUnhop(m) ==
  LET m1 == [ m EXCEPT !.cur = [ @ EXCEPT ![Z_AXIS] = @ + retract_zlift ] ]
      m2 == [ SYNC_PLAN_POSITION_KINEMATIC(m1) EXCEPT !.fr = max_feedrate_mm_s_Z ]
  IN [ prepare_move_to_destination(m2) EXCEPT !.hop = 0 ]

\* lines 134-151
RetractBranch(m, swap, zhop) ==
  LET m1 == [ m EXCEPT !.fr  = retract_feedrate_mm_s,
                       !.cur = [ @ EXCEPT ![E_AXIS] =
                                   @ + renormalize(RetractDistance(swap), FlowFactor) ] ]
      m2 == prepare_move_to_destination(sync_plan_position_e(m1))
  IN IF HopDue(zhop, m2.hop) THEN ZHop(m2) ELSE m2

\* Variant: the recover pushes the filament before it lowers the nozzle
RecoverBranch_EFirst(m, swap) ==
  LET m1 == [ m EXCEPT !.fr  = RecoverFeedrate(swap),
                       !.cur = [ @ EXCEPT ![E_AXIS] =
                                   @ - renormalize(RecoverDistance(swap), FlowFactor) ] ]
      m2 == prepare_move_to_destination(sync_plan_position_e(m1))
  IN IF UnhopDue(m2.hop) THEN ZUnhop(m2) ELSE m2

\* lines 152-169
RecoverBranch(m, swap) ==
  LET m1 == IF UnhopDue(m.hop) THEN ZUnhop(m) ELSE m
      m2 == [ m1 EXCEPT !.fr  = RecoverFeedrate(swap),
                        !.cur = [ @ EXCEPT ![E_AXIS] =
                                    @ - renormalize(RecoverDistance(swap), FlowFactor) ] ]
  IN prepare_move_to_destination(sync_plan_position_e(m2))

\* Variant: the feedrate of the last queued move is left in place
RestoredFeedrate_Left(m) == m.fr

\* line 171: restore original feedrate
RestoredFeedrate(m) == old_feedrate_mm_s

\* Variant: every extruder is marked retracted / recovered
CommitRetracted_All(r, swap, e) == [ i \in Extruders |-> r ]

\* lines 173-178
CommitRetracted(r, swap, e) == [ retracted EXCEPT ![e] = r ]

\* Variant: the swap flag is committed on every transition
CommitSwap_Always(r, swap, e) == [ retracted_swap EXCEPT ![e] = r ]

CommitSwap(r, swap, e) ==
  IF EXTRUDERS > 1 /\ swap THEN [ retracted_swap EXCEPT ![e] = r ] ELSE retracted_swap

TransitionName(r, swap) ==
  IF r THEN (IF swap THEN "swap_retract" ELSE "retract")
       ELSE (IF swap THEN "swap_recover" ELSE "recover")

\* retract(r, s) up to its return (lines 99, 104) or up to the barrier (line 130)
RetractCall(r, s) ==
  /\ pc = "idle"
  /\ prev' = Summary
  /\ pre' = Snapshot
  /\ queued' = <<>>
  /\ IF SuppressDoubled(r, active_extruder) \/ SuppressSwap(r, s, active_extruder)
       THEN /\ last' = Command("retract", r, s, "suppressed")
            /\ trace' = <<>>
            /\ UNCHANGED << pc, locals, motion >>
       ELSE /\ last' = Command("retract", r, s, "blocked")
            /\ retracting' = r
            /\ swapping' = EffectiveSwapping(r, s, active_extruder)
            /\ has_zhop' = HasZhop(retract_zlift)
            /\ old_feedrate_mm_s' = feedrate_mm_s
            /\ destination' = current_position
            /\ trace' = << "set_destination_from_current", "synchronize" >>
            /\ pc' = "sync"
            /\ UNCHANGED << feedrate_mm_s, current_position, planner_position >>
  /\ UNCHANGED << EXTRUDERS, config, retracted, retracted_swap, hop_amount,
                  active_extruder, e_factor, blocks_queued, transition, pulled >>

\* Variant: the barrier returns while blocks are still queued
BarrierPassed_NoWait == TRUE

\* line 130: stepper.synchronize() returns once the planner's buffer is empty
BarrierPassed == blocks_queued = 0

\* stepper.synchronize() returns once the planner's buffer is empty; then
\* lines 132-178
RetractResume ==
  /\ pc = "sync"
  /\ BarrierPassed
  /\ LET m0 == [ cur |-> current_position, dest |-> destination,
                 plan |-> planner_position, fr |-> feedrate_mm_s,
                 hop |-> hop_amount, moves |-> <<>>, ev |-> trace ]
         m  == IF retracting THEN RetractBranch(m0, swapping, has_zhop)
                             ELSE RecoverBranch(m0, swapping)
     IN /\ current_position' = m.cur
        /\ destination' = m.dest
        /\ planner_position' = m.plan
        /\ hop_amount' = m.hop
        /\ queued' = m.moves
        /\ trace' = m.ev
        /\ blocks_queued' = blocks_queued + Len(m.moves)
        /\ pulled' = [ pulled EXCEPT ![active_extruder] =
                        IF retracting THEN Sum(Deltas(m.moves, E_AXIS)) ELSE 0 ]
        /\ feedrate_mm_s' = RestoredFeedrate(m)
  /\ retracted' = CommitRetracted(retracting, swapping, active_extruder)
  /\ retracted_swap' = CommitSwap(retracting, swapping, active_extruder)
  /\ transition' = [ transition EXCEPT ![active_extruder] =
                       TransitionName(retracting, swapping) ]
  /\ last' = [ last EXCEPT !.outcome = "done" ]
  /\ pc' = "idle"
  /\ retracting' = FALSE
  /\ swapping' = FALSE
  /\ has_zhop' = FALSE
  /\ old_feedrate_mm_s' = 0
  /\ UNCHANGED << EXTRUDERS, config, active_extruder, e_factor, pre, prev >>

\* Variant: the stepper never runs the last queued block
StepperISR_Stalled ==
  /\ blocks_queued > 1
  /\ blocks_queued' = blocks_queued - 1
  /\ UNCHANGED << EXTRUDERS, config, retracted, retracted_swap, hop_amount,
                  active_extruder, motion, e_factor, pc, locals, history >>

\* The stepper runs one queued block
StepperISR ==
  /\ blocks_queued > 0
  /\ blocks_queued' = blocks_queued - 1
  /\ UNCHANGED << EXTRUDERS, config, retracted, retracted_swap, hop_amount,
                  active_extruder, motion, e_factor, pc, locals, history >>

----------------------------------------------------------------------------
(* FWRetract::reset, lines 57-74 *)

ResetRetracted == [ i \in Extruders |-> FALSE ]

\* Variant: reset() clears retracted[] only
ResetRetractedSwap_Kept == retracted_swap

ResetRetractedSwap == [ i \in Extruders |-> FALSE ]

Reset ==
  /\ pc = "idle"
  /\ autoretract_enabled' = FALSE
  /\ retract_length' = RETRACT_LENGTH
  /\ retract_feedrate_mm_s' = RETRACT_FEEDRATE
  /\ retract_zlift' = RETRACT_ZLIFT
  /\ retract_recover_length' = RETRACT_RECOVER_LENGTH
  /\ retract_recover_feedrate_mm_s' = RETRACT_RECOVER_FEEDRATE
  /\ swap_retract_length' = RETRACT_LENGTH_SWAP
  /\ swap_retract_recover_length' = RETRACT_RECOVER_LENGTH_SWAP
  /\ swap_retract_recover_feedrate_mm_s' = RETRACT_RECOVER_FEEDRATE_SWAP
  /\ retracted' = ResetRetracted
  /\ retracted_swap' = ResetRetractedSwap
  /\ prev' = Summary
  /\ pre' = Snapshot
  /\ queued' = <<>>
  /\ trace' = <<>>
  /\ last' = Command("reset", FALSE, FALSE, "done")
  /\ transition' = [ i \in Extruders |-> "none" ]
  /\ pulled' = [ i \in Extruders |-> 0 ]
  /\ UNCHANGED << EXTRUDERS, hop_amount, active_extruder, motion, e_factor,
                  blocks_queued, pc, locals >>

----------------------------------------------------------------------------
(* The command layer around the controller *)

\* Tool change: another extruder becomes the active one
ToolChange(e) ==
  /\ pc = "idle"
  /\ e # active_extruder
  /\ active_extruder' = e
  /\ prev' = Summary
  /\ pre' = NoSnapshot
  /\ queued' = <<>>
  /\ trace' = <<>>
  /\ last' = Command("tool_change", FALSE, FALSE, "done")
  /\ UNCHANGED << EXTRUDERS, config, retracted, retracted_swap, hop_amount,
                  motion, e_factor, blocks_queued, pc, locals, transition,
                  pulled >>

Configured(cmd) ==
  /\ prev' = Summary
  /\ pre' = NoSnapshot
  /\ queued' = <<>>
  /\ trace' = <<>>
  /\ last' = Command(cmd, FALSE, FALSE, "done")
  /\ UNCHANGED << EXTRUDERS, retracted, retracted_swap, hop_amount, active_extruder,
                  motion, e_factor, blocks_queued, pc, locals, transition,
                  pulled >>

\* configure-retract command
M207(a) ==
  /\ pc = "idle"
  /\ retract_length' = a.S
  /\ retract_feedrate_mm_s' = a.F
  /\ retract_zlift' = a.Z
  /\ swap_retract_length' = a.W
  /\ UNCHANGED << autoretract_enabled, retract_recover_length,
                  retract_recover_feedrate_mm_s, swap_retract_recover_length,
                  swap_retract_recover_feedrate_mm_s >>
  /\ Configured("M207")

\* configure-recover command
M208(a) ==
  /\ pc = "idle"
  /\ retract_recover_length' = a.S
  /\ retract_recover_feedrate_mm_s' = a.F
  /\ swap_retract_recover_length' = a.W
  /\ swap_retract_recover_feedrate_mm_s' = a.R
  /\ UNCHANGED << autoretract_enabled, retract_length, retract_feedrate_mm_s,
                  retract_zlift, swap_retract_length >>
  /\ Configured("M208")

\* enable-autoretract command
M209(b) ==
  /\ pc = "idle"
  /\ autoretract_enabled' = b
  /\ UNCHANGED << retract_length, retract_feedrate_mm_s, retract_zlift,
                  retract_recover_length, retract_recover_feedrate_mm_s,
                  swap_retract_length, swap_retract_recover_length,
                  swap_retract_recover_feedrate_mm_s >>
  /\ Configured("M209")

----------------------------------------------------------------------------
(* Specifications *)

HomePosition == [ a \in Axes |-> 0 ]

\* The configuration reset() leaves
DefaultSettings ==
  [ autoretract_enabled                |-> FALSE,
    retract_length                     |-> RETRACT_LENGTH,
    retract_feedrate_mm_s              |-> RETRACT_FEEDRATE,
    retract_zlift                      |-> RETRACT_ZLIFT,
    retract_recover_length             |-> RETRACT_RECOVER_LENGTH,
    retract_recover_feedrate_mm_s      |-> RETRACT_RECOVER_FEEDRATE,
    swap_retract_length                |-> RETRACT_LENGTH_SWAP,
    swap_retract_recover_length        |-> RETRACT_RECOVER_LENGTH_SWAP,
    swap_retract_recover_feedrate_mm_s |-> RETRACT_RECOVER_FEEDRATE_SWAP ]

\* Settings a start-up may restore: any stored retract_zlift and recover
\* parameters over the defaults
StoredSettings ==
  { [ DefaultSettings EXCEPT !.retract_zlift = z,
                             !.retract_recover_length = b.S,
                             !.retract_recover_feedrate_mm_s = b.F,
                             !.swap_retract_recover_length = b.W,
                             !.swap_retract_recover_feedrate_mm_s = b.R ]
      : z \in ZLifts, b \in M208Args }

\* The state after construction (the constructor calls reset()) with n
\* extruders, then the configuration c and planner.e_factor drawn from flows
InitWith(n, c, flows, feeds) ==
  /\ EXTRUDERS = n
  /\ autoretract_enabled = c.autoretract_enabled
  /\ retract_length = c.retract_length
  /\ retract_feedrate_mm_s = c.retract_feedrate_mm_s
  /\ retract_zlift = c.retract_zlift
  /\ retract_recover_length = c.retract_recover_length
  /\ retract_recover_feedrate_mm_s = c.retract_recover_feedrate_mm_s
  /\ swap_retract_length = c.swap_retract_length
  /\ swap_retract_recover_length = c.swap_retract_recover_length
  /\ swap_retract_recover_feedrate_mm_s = c.swap_retract_recover_feedrate_mm_s
  /\ retracted = [ i \in 0 .. (n - 1) |-> FALSE ]
  /\ retracted_swap = [ i \in 0 .. (n - 1) |-> FALSE ]
  /\ hop_amount = 0
  /\ active_extruder = 0
  /\ feedrate_mm_s \in feeds
  /\ current_position = HomePosition
  /\ destination = HomePosition
  /\ planner_position = HomePosition
  /\ e_factor \in flows
  /\ blocks_queued = 0
  /\ pc = "idle"
  /\ retracting = FALSE
  /\ swapping = FALSE
  /\ has_zhop = FALSE
  /\ old_feedrate_mm_s = 0
  /\ last = [ cmd |-> "boot", retracting |-> FALSE, swapping |-> FALSE,
              extruder |-> 0, outcome |-> "done" ]
  /\ queued = <<>>
  /\ trace = <<>>
  /\ prev = NoSummary
  /\ transition = [ i \in 0 .. (n - 1) |-> "none" ]
  /\ pulled = [ i \in 0 .. (n - 1) |-> 0 ]
  /\ pre = Snapshot

\* The planner starts every extruder at a flow factor of 1.0
Init == InitWith(NumExtruders, DefaultSettings,
          { [ i \in 0 .. (NumExtruders - 1) |-> 100 ] }, { 25 })

Retract == \E r \in BOOLEAN, s \in BOOLEAN : RetractCall(r, s)

Tool == \E e \in Extruders : ToolChange(e)

Configure ==
  \/ \E a \in M207Args : M207(a)
  \/ \E a \in M208Args : M208(a)
  \/ \E b \in BOOLEAN : M209(b)

Next ==
  \/ Retract
  \/ RetractResume
  \/ StepperISR
  \/ Tool
  \/ Reset
  \/ Configure

Spec == Init /\ [][Next]_vars

\* retract() calls and tool changes only, under a configuration and flow
\* factors that stay what the stored settings made them
InitFixed ==
  \E c \in StoredSettings :
    InitWith(NumExtruders, c, [ 0 .. (NumExtruders - 1) -> FlowFactors ],
             Feedrates)

NextFixed ==
  \/ Retract
  \/ RetractResume
  \/ StepperISR
  \/ Tool

SpecFixed == InitFixed /\ [][NextFixed]_vars

\* A build with EXTRUDERS = 1: no tool to change to
InitSingle ==
  InitWith(1, DefaultSettings, { [ i \in { 0 } |-> 100 ] }, { 25 })

NextSingle ==
  \/ Retract
  \/ RetractResume
  \/ StepperISR
  \/ Reset
  \/ Configure

SpecSingle == InitSingle /\ [][NextSingle]_vars

\* The stepper interrupt keeps draining the buffer and a call past the
\* barrier runs on to its return; retract() calls and tool changes under
\* the default settings
SpecLive ==
  /\ Init
  /\ [][NextFixed]_vars
  /\ WF_vars(StepperISR)
  /\ WF_vars(RetractResume)

----------------------------------------------------------------------------
(* Properties *)

Abs(x) == IF x < 0 THEN -x ELSE x

\* The latest command is a retract() call / one that ran to its end
IsRetractCall == last.cmd = "retract"

RetractDone == last.cmd = "retract" /\ last.outcome = "done"

\* The variant the call runs as: the recover priority rule, from the flags
\* at entry
RanAsSwap == IF last.retracting THEN last.swapping
                                ELSE pre.retracted_swap[last.extruder]

EMoves == AxisMoves(queued, E_AXIS)

ZMoves == AxisMoves(queued, Z_AXIS)

\* C1: a retract(X, swapping) call on an extruder whose retracted flag is
\* already X returns at once: no barrier, no position redefinition, no
\* move queued, and flags, hop_amount, feedrate, positions and
\* configuration are what they were at entry.
C1_Idempotence ==
  (IsRetractCall /\ pre.retracted[last.extruder] = last.retracting)
    => /\ pc = "idle"
       /\ last.outcome = "suppressed"
       /\ queued = <<>>
       /\ trace = <<>>
       /\ Snapshot = pre

C1_Witness ==
  /\ IsRetractCall
  /\ last.outcome = "suppressed"
  /\ last.retracting
  /\ last.swapping
  /\ pre.retracted[last.extruder]
  /\ hop_amount # 0

\* C2: a plain recover retract(false, false) on an extruder with retracted
\* and retracted_swap both set is accepted and runs as the swap recover: one
\* filament move of (swap_retract_length + swap_retract_recover_length) /
\* e_factor at swap_retract_recover_feedrate_mm_s, and both flags cleared.
C2_SwapPriority ==
  ( /\ IsRetractCall
    /\ ~last.retracting
    /\ ~last.swapping
    /\ pre.retracted[last.extruder]
    /\ pre.retracted_swap[last.extruder] )
    => /\ last.outcome \in { "blocked", "done" }
       /\ last.outcome = "done" =>
            /\ Len(EMoves) = 1
            /\ EMoves[1].d[E_AXIS] * e_factor[last.extruder]
                 = (swap_retract_length + swap_retract_recover_length) * 100
            /\ EMoves[1].fr = swap_retract_recover_feedrate_mm_s
            /\ ~retracted[last.extruder]
            /\ ~retracted_swap[last.extruder]

C2_Witness ==
  /\ RetractDone
  /\ ~last.retracting
  /\ ~last.swapping
  /\ pre.retracted[last.extruder]
  /\ pre.retracted_swap[last.extruder]
  /\ swap_retract_recover_feedrate_mm_s # retract_recover_feedrate_mm_s
  /\ swap_retract_recover_length # 0
  /\ e_factor[last.extruder] # 100

\* C3: under a fixed retract_zlift = h > 0.01, an accepted retract that
\* found no hop pending, followed immediately by the accepted recover on
\* the same extruder: the retract queued exactly one Z move, of +h, the
\* recover exactly one, of -h, and hop_amount is 0 after the recover.
C3_HopSymmetry ==
  ( /\ RetractDone
    /\ ~last.retracting
    /\ prev.cmd = "retract"
    /\ prev.retracting
    /\ prev.extruder = last.extruder
    /\ prev.pre_hop = 0
    /\ retract_zlift > 1 )
    => /\ prev.zmoves = << retract_zlift >>
       /\ Deltas(ZMoves, Z_AXIS) = << -retract_zlift >>
       /\ prev.zmoves[1] + ZMoves[1].d[Z_AXIS] = 0
       /\ hop_amount = 0

C3_Witness ==
  /\ RetractDone
  /\ ~last.retracting
  /\ prev.cmd = "retract"
  /\ prev.retracting
  /\ prev.extruder = last.extruder
  /\ prev.pre_hop = 0
  /\ retract_zlift = 20
  /\ Len(ZMoves) = 1

\* C4: under a fixed retract_zlift, over any retract() calls and tool
\* changes, hop_amount is 0 or retract_zlift; a retract that finds a hop
\* pending queues no Z move and leaves hop_amount as it was.
C4_NoDoubleHop ==
  /\ hop_amount \in { 0, retract_zlift }
  /\ (RetractDone /\ last.retracting /\ pre.hop_amount # 0)
       => /\ ZMoves = <<>>
          /\ hop_amount = pre.hop_amount

C4_Witness ==
  /\ RetractDone
  /\ last.retracting
  /\ pre.hop_amount # 0
  /\ last.extruder = 1
  /\ retracted[0]
  /\ hop_amount = retract_zlift

\* C5: a retract(retracting, true) call on an extruder whose retracted_swap
\* flag already equals retracting returns at once, queues nothing and
\* changes no state; so retract(false, true) on a plain-retracted extruder
\* leaves it retracted.
C5_SwapSuppression ==
  ( /\ IsRetractCall
    /\ last.swapping
    /\ pre.retracted_swap[last.extruder] = last.retracting )
    => /\ pc = "idle"
       /\ last.outcome = "suppressed"
       /\ queued = <<>>
       /\ trace = <<>>
       /\ Snapshot = pre

C5_Witness ==
  /\ IsRetractCall
  /\ last.outcome = "suppressed"
  /\ ~last.retracting
  /\ last.swapping
  /\ pre.retracted[last.extruder]
  /\ ~pre.retracted_swap[last.extruder]
  /\ retracted[last.extruder]

\* C6: after an accepted retract(retracting, swapping), retracted[active]
\* = retracting; retracted_swap[active] = retracting if the transition ran
\* as the swap variant, and is what it was at entry otherwise.
C6_Commit ==
  RetractDone =>
    /\ retracted[last.extruder] = last.retracting
    /\ retracted_swap[last.extruder] =
         (IF RanAsSwap THEN last.retracting
                       ELSE pre.retracted_swap[last.extruder])

C6_Witness ==
  /\ RetractDone
  /\ last.retracting
  /\ ~last.swapping
  /\ retracted[last.extruder]
  /\ ~retracted_swap[last.extruder]
  /\ \E e \in Extruders : retracted_swap[e]

\* C7: from reset(), over any retract() calls, tool changes, resets and
\* configuration commands, no extruder has retracted = FALSE with
\* retracted_swap = TRUE, and retracted_swap is TRUE only when the last
\* accepted transition of that extruder was a swap retract.
C7_ThreeStates ==
  \A e \in Extruders :
    /\ ~(~retracted[e] /\ retracted_swap[e])
    /\ retracted_swap[e] => transition[e] = "swap_retract"

\* recovered, retracted and swap-retracted all occur
C7_Witness ==
  /\ retracted[0] /\ retracted_swap[0]
  /\ retracted[1] /\ ~retracted_swap[1]
  /\ transition[1] = "retract"
  /\ pc = "idle"

\* C8: the first retract(true, s) after reset() is accepted, queues the
\* filament move and, when retract_zlift > 0.01, queues the Z hop and sets
\* hop_amount to retract_zlift, as it does from the initial state.
C8_ResetBaseline ==
  (IsRetractCall /\ last.retracting /\ prev.cmd = "reset")
    => /\ last.outcome \in { "blocked", "done" }
       /\ (last.outcome = "done" /\ retract_zlift > 1) =>
            /\ Len(EMoves) = 1
            /\ Deltas(ZMoves, Z_AXIS) = << retract_zlift >>
            /\ hop_amount = retract_zlift

\* C9: after reset() every retracted and retracted_swap flag is FALSE and
\* the configuration is the compiled-in default; reset() queues no move,
\* and a reset() right after a reset() changes nothing.
C9_Reset ==
  last.cmd = "reset" =>
    /\ \A i \in Extruders : ~retracted[i] /\ ~retracted_swap[i]
    /\ config = << FALSE, RETRACT_LENGTH, RETRACT_FEEDRATE, RETRACT_ZLIFT,
                   RETRACT_RECOVER_LENGTH, RETRACT_RECOVER_FEEDRATE,
                   RETRACT_LENGTH_SWAP, RETRACT_RECOVER_LENGTH_SWAP,
                   RETRACT_RECOVER_FEEDRATE_SWAP >>
    /\ queued = <<>>
    /\ trace = <<>>
    /\ prev.cmd = "reset" => Snapshot = pre

C9_Witness ==
  /\ last.cmd = "reset"
  /\ pre.retracted[0]
  /\ pre.retracted_swap[1]
  /\ pre.config[1]
  /\ pre.config[2] # RETRACT_LENGTH
  /\ pre.config[4] # RETRACT_ZLIFT
  /\ pre.config[5] # RETRACT_RECOVER_LENGTH
  /\ pre.hop_amount # 0

\* C10: an accepted retract queues one filament move of magnitude L /
\* e_factor[active], L the retract length of the variant it runs as; an
\* accepted recover queues one of magnitude (L + recover length of its
\* variant) / e_factor[active].
C10_FlowCompensation ==
  RetractDone =>
    /\ Len(EMoves) = 1
    /\ Abs(EMoves[1].d[E_AXIS]) * e_factor[last.extruder] =
         100 * (IF last.retracting
                  THEN (IF RanAsSwap THEN swap_retract_length ELSE retract_length)
                  ELSE (IF RanAsSwap
                          THEN swap_retract_length + swap_retract_recover_length
                          ELSE retract_length + retract_recover_length))

C10_Witness ==
  /\ RetractDone
  /\ ~last.retracting
  /\ ~RanAsSwap
  /\ last.extruder = 1
  /\ e_factor[1] = 200
  /\ e_factor[0] = 100
  /\ retract_recover_length # 0
  /\ Abs(EMoves[1].d[E_AXIS]) = 180

\* A move along one axis only
OnlyAxis(mv, axis) == \A a \in Axes : (mv.d[a] # 0) <=> (a = axis)

Move(axis, delta, fr) ==
  [ d |-> [ a \in Axes |-> IF a = axis THEN delta ELSE 0 ], fr |-> fr ]

\* The configuration and flow of the scenario: 3 mm at 45 mm/s, a 0.4 mm
\* hop, recover length 0 at 45 mm/s, flow factor 1
Scenario ==
  /\ retract_length = 300
  /\ retract_feedrate_mm_s = 45
  /\ retract_zlift = 40
  /\ retract_recover_length = 0
  /\ retract_recover_feedrate_mm_s = 45
  /\ e_factor[last.extruder] = 100

\* C11: an accepted retract queues the filament move first and the Z hop,
\* if any, second; an accepted recover queues the Z un-hop, if any, first
\* and the filament move last.  In the scenario, retract(true, false) from
\* the recovered state queues [E -3 at 45, Z +0.4 at the Z maximum] and
\* leaves retracted set and hop_amount 0.4; the retract(false, false) that
\* follows queues [Z -0.4 at the Z maximum, E +3 at 45] and leaves
\* retracted clear and hop_amount 0.
C11_MoveOrder ==
  RetractDone =>
    /\ Len(queued) \in 1..2
    /\ last.retracting =>
         /\ OnlyAxis(queued[1], E_AXIS)
         /\ Len(queued) = 2 => OnlyAxis(queued[2], Z_AXIS)
    /\ ~last.retracting =>
         /\ OnlyAxis(queued[Len(queued)], E_AXIS)
         /\ Len(queued) = 2 => OnlyAxis(queued[1], Z_AXIS)
    /\ (Scenario /\ last.retracting /\ ~last.swapping /\ pre.hop_amount = 0) =>
         /\ queued = << Move(E_AXIS, -300, 45), Move(Z_AXIS, 40, max_feedrate_mm_s_Z) >>
         /\ retracted[last.extruder]
         /\ hop_amount = 40
    /\ (Scenario /\ ~last.retracting /\ ~last.swapping /\ pre.hop_amount = 40
          /\ ~pre.retracted_swap[last.extruder]) =>
         /\ queued = << Move(Z_AXIS, -40, max_feedrate_mm_s_Z), Move(E_AXIS, 300, 45) >>
         /\ ~retracted[last.extruder]
         /\ hop_amount = 0

C11_Witness ==
  /\ RetractDone
  /\ Scenario
  /\ ~last.retracting
  /\ ~last.swapping
  /\ prev.cmd = "retract"
  /\ prev.retracting
  /\ prev.extruder = last.extruder
  /\ prev.zmoves = << 40 >>
  /\ Len(queued) = 2

Accepted == IsRetractCall /\ last.outcome \in { "blocked", "done" }

Barriers == { i \in 1..Len(trace) : trace[i] = "synchronize" }

\* C12 as claimed: in an accepted call the barrier is the first thing the
\* controller does with the position state, before the current position is
\* copied into the destination, and it is issued exactly once.
C12_BarrierFirst ==
  Accepted =>
    /\ Cardinality(Barriers) = 1
    /\ \A i \in 1..Len(trace) : \A b \in Barriers : i # b => b < i

\* C12 amended: an accepted call copies the current position into the
\* destination, then issues the barrier, exactly once; every position
\* redefinition and every queued move comes after the barrier has returned
\* on an empty buffer, and until then no flag, position or hop_amount has
\* changed and nothing is queued.
C12_BarrierBeforeMotion ==
  Accepted =>
    /\ Len(trace) >= 2
    /\ trace[1] = "set_destination_from_current"
    /\ Barriers = { 2 }
    /\ \A i \in 3..Len(trace) :
         trace[i] \in { "sync_plan_position_e", "sync_plan_position_kinematic",
                        "prepare_move_to_destination" }
    /\ last.outcome = "blocked" =>
         /\ pc = "sync"
         /\ Len(trace) = 2
         /\ queued = <<>>
         /\ Snapshot = [ pre EXCEPT !.destination = pre.current_position ]
    /\ last.outcome = "done" =>
         /\ Len(trace) > 2
         /\ blocks_queued <= Len(queued)

\* a call waiting at the barrier behind the moves of the call before it
C12_Witness ==
  /\ Accepted
  /\ pc = "sync"
  /\ blocks_queued = 2
  /\ ~last.retracting
  /\ hop_amount # 0

\* C13: the hop raises Z by the amount it adds to hop_amount, and the
\* recover that brings hop_amount back to 0 lowers Z by the amount that was
\* pending, whatever retract_zlift has become in between.
C13_ExactReversal ==
  RetractDone =>
    /\ (last.retracting /\ hop_amount # pre.hop_amount) =>
         Sum(Deltas(queued, Z_AXIS)) = hop_amount - pre.hop_amount
    /\ (~last.retracting /\ pre.hop_amount # 0) =>
         /\ hop_amount = 0
         /\ Sum(Deltas(queued, Z_AXIS)) = -pre.hop_amount

\* C14: under a fixed configuration and flow, an accepted recover runs the
\* variant of the retract that put its extruder into the retracted state,
\* and that retract and the recover together queue a net filament
\* displacement of the variant's recover length / e_factor.
C14_RoundTrip ==
  (RetractDone /\ ~last.retracting) =>
    LET e    == last.extruder
        swap == pre.transition[e] = "swap_retract"
        back == pre.pulled[e]
        fwd  == Sum(Deltas(queued, E_AXIS))
    IN /\ pre.transition[e] \in { "retract", "swap_retract" }
       /\ transition[e] = (IF swap THEN "swap_recover" ELSE "recover")
       /\ -back * e_factor[e] =
            100 * (IF swap THEN swap_retract_length ELSE retract_length)
       /\ (back + fwd) * e_factor[e] =
            100 * (IF swap THEN swap_retract_recover_length
                           ELSE retract_recover_length)

C14_Witness ==
  /\ RetractDone
  /\ ~last.retracting
  /\ ~last.swapping
  /\ pre.transition[last.extruder] = "swap_retract"
  /\ e_factor[last.extruder] = 200
  /\ pre.pulled[last.extruder] = -600
  /\ Sum(Deltas(queued, E_AXIS)) = 660

\* C15: when an accepted retract() call returns, current_position equals
\* its value at entry on every axis, although one or two moves were queued.
C15_HopInvisible ==
  RetractDone =>
    /\ current_position = pre.current_position
    /\ Len(queued) \in 1..2

C15_Witness ==
  /\ RetractDone
  /\ last.retracting
  /\ Len(queued) = 2
  /\ Len(ZMoves) = 1
  /\ current_position = pre.current_position

\* C16: on return from every retract() call, suppressed or accepted, on
\* the retract and the recover branch, with or without a hop, feedrate_mm_s
\* is what it was at entry.
C16_FeedrateRestored ==
  (IsRetractCall /\ pc = "idle") => feedrate_mm_s = pre.feedrate_mm_s

C16_Witness ==
  /\ RetractDone
  /\ ~last.retracting
  /\ Len(ZMoves) = 1
  /\ feedrate_mm_s = 50
  /\ \A i \in 1..Len(queued) : queued[i].fr # 50

\* C17: a retract() call leaves retracted[j] and retracted_swap[j] as they
\* were for every extruder j other than the one active during the call.
C17_OnlyActiveExtruder ==
  IsRetractCall =>
    /\ last.extruder = active_extruder
    /\ \A j \in Extruders \ { last.extruder } :
         /\ retracted[j] = pre.retracted[j]
         /\ retracted_swap[j] = pre.retracted_swap[j]

C17_Witness ==
  /\ RetractDone
  /\ last.extruder = 1
  /\ pre.retracted[1] /\ pre.retracted_swap[1]
  /\ ~retracted[1] /\ ~retracted_swap[1]
  /\ retracted[0] /\ retracted_swap[0]

\* The feedrate the recovery move of the latest call is due
RecoverFeedrateDue ==
  IF RanAsSwap THEN swap_retract_recover_feedrate_mm_s
               ELSE retract_recover_feedrate_mm_s

\* C18: the filament move of a retract is queued at retract_feedrate_mm_s,
\* plain or swap; the filament move of a recover at the swap recover
\* feedrate when it runs as swap and at the plain recover feedrate
\* otherwise; every hop and un-hop move at the Z axis maximum feedrate.
C18_FeedrateSelection ==
  RetractDone =>
    /\ Len(EMoves) = 1
    /\ EMoves[1].fr = (IF last.retracting THEN retract_feedrate_mm_s
                                          ELSE RecoverFeedrateDue)
    /\ \A i \in 1..Len(queued) :
         queued[i].d[E_AXIS] = 0 => queued[i].fr = max_feedrate_mm_s_Z

C18_Witness ==
  /\ RetractDone
  /\ ~last.retracting
  /\ RanAsSwap
  /\ Len(ZMoves) = 1
  /\ ZMoves[1].fr = max_feedrate_mm_s_Z
  /\ EMoves[1].fr = swap_retract_recover_feedrate_mm_s
  /\ swap_retract_recover_feedrate_mm_s # retract_recover_feedrate_mm_s

\* The position redefinitions of the latest call
Redefinitions ==
  { i \in 1..Len(trace) :
      trace[i] \in { "sync_plan_position_e", "sync_plan_position_kinematic" } }

\* C19: an accepted retract() call queues between 1 and 3 moves and makes
\* between 0 and 2 position redefinitions; exactly one queued move is a
\* filament move and at most one is a Z move.
C19_SideEffectBounds ==
  RetractDone =>
    /\ Len(queued) \in 1..3
    /\ Cardinality(Redefinitions) \in 0..2
    /\ Len(EMoves) = 1
    /\ Len(ZMoves) <= 1

C19_Witness ==
  /\ RetractDone
  /\ Len(queued) = 2
  /\ Cardinality(Redefinitions) = 2
  /\ Len(EMoves) = 1
  /\ Len(ZMoves) = 1

\* C20: an accepted retract with retract_zlift <= 0.01 mm, 0.01 mm and 0
\* included, queues no Z move and leaves hop_amount as it was; with
\* retract_zlift > 0.01 mm and hop_amount = 0 it queues exactly one Z move
\* and sets hop_amount to retract_zlift.
C20_HopThreshold ==
  (RetractDone /\ last.retracting) =>
    /\ retract_zlift <= ZHOP_MIN =>
         /\ Len(queued) = 1
         /\ Len(ZMoves) = 0
         /\ hop_amount = pre.hop_amount
    /\ (retract_zlift > ZHOP_MIN /\ pre.hop_amount = 0) =>
         /\ Len(ZMoves) = 1
         /\ ZMoves[1].d[Z_AXIS] = retract_zlift
         /\ hop_amount = retract_zlift

C20_Witness ==
  /\ RetractDone
  /\ last.retracting
  /\ retract_zlift = ZHOP_MIN
  /\ Len(queued) = 1
  /\ hop_amount = 0

\* C21: retract(true, true) is accepted, queuing moves and setting
\* retracted_swap[active], only when the active extruder is already
\* retracted at entry.
C21_SwapAfterPlain ==
  (Accepted /\ last.retracting /\ last.swapping) =>
    pre.retracted[last.extruder]

\* C22: after retract(false, s) returns, for either value of s, the active
\* extruder is recovered: retracted[active] and retracted_swap[active] are
\* both false.
C22_RecoverRecovers ==
  (IsRetractCall /\ ~last.retracting /\ pc = "idle") =>
    /\ ~retracted[last.extruder]
    /\ ~retracted_swap[last.extruder]

\* C23: with more than one extruder, a fixed retract_zlift > 0.01 mm and
\* no reset(), between retract() calls and tool changes a retracted active
\* extruder implies a pending hop, hop_amount = retract_zlift.
C23_LiftedWhileRetracted ==
  (EXTRUDERS > 1 /\ retract_zlift > ZHOP_MIN /\ pc = "idle"
     /\ retracted[active_extruder]) =>
    hop_amount = retract_zlift

\* C24: the barrier is the only place a retract() call waits.  While the
\* call waits no flag, hop_amount or tracked position has changed and it
\* returns only on an empty buffer; with the stepper draining the buffer,
\* every call at the barrier returns with its flags committed.
C24_Termination ==
  /\ [](IF pc = "sync"
          THEN /\ last.outcome = "blocked"
               /\ queued = <<>>
               /\ Snapshot = [ pre EXCEPT !.destination = pre.current_position ]
          ELSE TRUE)
  /\ [][(pc = "sync" /\ pc' # "sync") => blocks_queued = 0]_vars
  /\ (pc = "sync") ~>
       (/\ pc = "idle"
        /\ RetractDone
        /\ retracted[last.extruder] = last.retracting)

\* a retract waiting at the barrier behind the last move of a recover
C24_Witness ==
  /\ pc = "sync"
  /\ last.outcome = "blocked"
  /\ last.retracting
  /\ blocks_queued = 1

\* C25: with one extruder retracted_swap is never true, and a retract()
\* call is suppressed, runs, moves the filament and commits its flag as the
\* plain variant does, whatever the swapping argument: its effect is a
\* function of the state at entry and of retracting alone.
C25_SingleExtruder ==
  /\ \A i \in Extruders : ~retracted_swap[i]
  /\ IsRetractCall =>
       ((last.outcome = "suppressed") <=> (pre.retracted[0] = last.retracting))
  /\ RetractDone =>
       /\ transition[0] = (IF last.retracting THEN "retract" ELSE "recover")
       /\ retracted = [ pre.retracted EXCEPT ![0] = last.retracting ]
       /\ Len(EMoves) = 1
       /\ EMoves[1].d[E_AXIS] * e_factor[0] =
            100 * (IF last.retracting
                     THEN -retract_length
                     ELSE retract_length + retract_recover_length)
       /\ EMoves[1].fr = (IF last.retracting THEN retract_feedrate_mm_s
                                             ELSE retract_recover_feedrate_mm_s)

C25_Witness ==
  /\ EXTRUDERS = 1
  /\ RetractDone
  /\ last.retracting
  /\ last.swapping
  /\ retracted[0]
  /\ ~retracted_swap[0]
  /\ EMoves[1].d[E_AXIS] = -retract_length
  /\ retract_length # swap_retract_length

====
